---- MODULE Spec2Model ----
(***************************************************************************)
(* A model of the leaf components of the EPUB layout core                  *)
(* (src/src/document/epub/layout.rs): margin collapsing, the hyphenation   *)
(* language mapper, the special-character splitter, the font resolver and  *)
(* the space tables, the draw commands and the default values, and of the  *)
(* menu toggles of src/src/view/common.rs.  Each component has its own     *)
(* specification (SpecMargins, SpecHyph, SpecSplitter, SpecFonts,          *)
(* SpecGlue, SpecDraw, SpecDefaults, SpecView); the variables of the other *)
(* components stay at their idle values.                                   *)
(***************************************************************************)
EXTENDS Integers, Sequences, FiniteSets, TLC

VARIABLES
    cm_a, cm_b, cm_ret,                    \* collapse_margins: arguments, outcome
    name, s, hl_pc, hl_ret, hl_iters,      \* hyph_lang: argument, loop slice, position, result
    text, current, next, ret, yielded, calls, \* SpecialSplitter fields and what next() gave
    font_calls,                            \* Fonts::get_mut: the calls made and the faces returned
    gl_text, gl_pos, gl_out,               \* glue scan over a run of characters
    cm_rev,                                \* collapse_margins: outcome of the call with swapped arguments
    dc_offset, dc_cmd, dc_ret,             \* DrawCommand: offset given at construction, command, offset() result
    style_data, sibling_style, line_stats, life, \* StyleData, SiblingStyle, LineStats values and their life cycle
    children, hub, last, toggles           \* a view's children, events sent to the hub, last toggle call, calls made

marginVars == <<cm_a, cm_b, cm_ret, cm_rev>>
hyphVars   == <<name, s, hl_pc, hl_ret, hl_iters>>
splitVars  == <<text, current, next, ret, yielded, calls>>
fontVars   == <<font_calls>>
glueVars   == <<gl_text, gl_pos, gl_out>>
drawVars   == <<dc_offset, dc_cmd, dc_ret>>
styleVars  == <<style_data, sibling_style, line_stats, life>>
viewVars   == <<children, hub, last, toggles>>
restVars   == <<drawVars, styleVars, viewVars>>
vars == <<marginVars, hyphVars, splitVars, fontVars, glueVars, restVars>>

(***************************************************************************)
(* Bounds of the model.                                                    *)
(***************************************************************************)
MaxMargin   == 20   \* margins are drawn from -MaxMargin..MaxMargin and the i32 extremes
MaxSubtags  == 3    \* a language tag has at most this many '-'-separated subtags
MaxTextLen  == 3    \* enumerated splitter texts have at most this many characters
ExtraCalls  == 2    \* calls of next() made after the splitter is exhausted
MaxFontCalls == 2   \* calls of Fonts::get_mut in one run
MaxGlueLen  == 2    \* characters in a run scanned for glue
MaxField    == 1    \* values assigned to the numeric fields of the style records are within -MaxField..MaxField
MaxToggles  == 3    \* calls of the toggle functions in one run
MaxOffset   == 3    \* source offsets and the other counts of a draw command are in 0..MaxOffset

(***************************************************************************)
(* Generic helpers.                                                        *)
(***************************************************************************)
SeqsUpTo(S, n) == UNION {[1..k -> S] : k \in 0..n}

RECURSIVE Flatten(_)
Flatten(ss) == IF ss = <<>> THEN <<>> ELSE Head(ss) \o Flatten(Tail(ss))

Some(v) == [some |-> TRUE, val |-> v]

NotCollapsed == [done |-> FALSE, panic |-> FALSE, added |-> FALSE, val |-> 0]
IdleMargins == cm_a = 0 /\ cm_b = 0 /\ cm_ret = NotCollapsed /\ cm_rev = NotCollapsed
IdleHyph == name = <<>> /\ s = <<>> /\ hl_pc = "idle" /\ hl_ret = [some |-> FALSE, val |-> "-"] /\ hl_iters = 0
IdleSplit == text = <<>> /\ current = 0 /\ next = 0 /\ ret = [called |-> FALSE, some |-> FALSE, val |-> <<>>, panic |-> FALSE]
             /\ yielded = <<>> /\ calls = 0
IdleFonts == font_calls = <<>>
IdleGlue == gl_text = <<>> /\ gl_pos = 0 /\ gl_out = <<>>
IdleDraw == dc_offset = 0 /\ dc_cmd = <<>> /\ dc_ret = [done |-> FALSE, val |-> 0]
IdleDefaults == style_data = <<>> /\ sibling_style = <<>> /\ line_stats = <<>> /\ life = <<>>
IdleView == children = <<>> /\ hub = <<>> /\ last = <<>> /\ toggles = 0
IdleRest == IdleDraw /\ IdleDefaults /\ IdleView

(***************************************************************************)
(* collapse_margins (layout.rs 327-335) on i32.                            *)
(***************************************************************************)
I32_MAX == 2147483647
I32_MIN == -I32_MAX - 1

I32Samples == (-MaxMargin..MaxMargin) \cup {I32_MIN, I32_MIN + 1, I32_MAX - 1, I32_MAX}

AddOverflows(x, y) ==
    \/ x > 0 /\ y > 0 /\ x > I32_MAX - y
    \/ x < 0 /\ y < 0 /\ x < I32_MIN - y

\* x + y reduced modulo 2^32 into the i32 range, computed without leaving it.
WrappingAdd(x, y) ==
    IF x > 0 /\ y > 0 /\ x > I32_MAX - y THEN (x + I32_MIN) + (y + I32_MIN)
    ELSE IF x < 0 /\ y < 0 /\ x < I32_MIN - y THEN (x - I32_MIN) + (y - I32_MIN)
    ELSE x + y

\* The outcomes of the i32 expression x + y: an overflowing sum panics in a
\* build with overflow checks and wraps in a build without them.
I32Add(x, y) ==
    IF AddOverflows(x, y)
    THEN {[done |-> TRUE, panic |-> TRUE, added |-> TRUE, val |-> 0],
          [done |-> TRUE, panic |-> FALSE, added |-> TRUE, val |-> WrappingAdd(x, y)]}
    ELSE {[done |-> TRUE, panic |-> FALSE, added |-> TRUE, val |-> x + y]}

I32Max(x, y) == IF y > x THEN y ELSE x
I32Min(x, y) == IF y < x THEN y ELSE x

collapse_margins_min_as_max(a, b) ==
    IF a >= 0 /\ b >= 0 THEN {[done |-> TRUE, panic |-> FALSE, added |-> FALSE, val |-> I32Max(a, b)]}
    ELSE IF a < 0 /\ b < 0 THEN {[done |-> TRUE, panic |-> FALSE, added |-> FALSE, val |-> I32Max(a, b)]}
    ELSE I32Add(a, b)

\* collapse_margins adding two negative margins instead of taking the smaller.
collapse_margins_add_negatives(a, b) ==
    IF a >= 0 /\ b >= 0 THEN {[done |-> TRUE, panic |-> FALSE, added |-> FALSE, val |-> I32Max(a, b)]}
    ELSE I32Add(a, b)

\* collapse_margins returning its first argument when both are non-negative.
collapse_margins_first_argument(a, b) ==
    IF a >= 0 /\ b >= 0 THEN {[done |-> TRUE, panic |-> FALSE, added |-> FALSE, val |-> a]}
    ELSE IF a < 0 /\ b < 0 THEN {[done |-> TRUE, panic |-> FALSE, added |-> FALSE, val |-> I32Min(a, b)]}
    ELSE I32Add(a, b)

collapse_margins(a, b) ==
    IF a >= 0 /\ b >= 0 THEN {[done |-> TRUE, panic |-> FALSE, added |-> FALSE, val |-> I32Max(a, b)]}
    ELSE IF a < 0 /\ b < 0 THEN {[done |-> TRUE, panic |-> FALSE, added |-> FALSE, val |-> I32Min(a, b)]}
    ELSE I32Add(a, b)

InitMargins ==
    /\ cm_a \in I32Samples
    /\ cm_b \in I32Samples
    /\ cm_ret = NotCollapsed
    /\ cm_rev = NotCollapsed
    /\ IdleHyph /\ IdleSplit /\ IdleFonts /\ IdleGlue /\ IdleRest

CollapseMargins ==
    /\ ~cm_ret.done
    /\ \E r \in collapse_margins(cm_a, cm_b) : cm_ret' = r
    /\ UNCHANGED <<cm_a, cm_b, cm_rev, hyphVars, splitVars, fontVars, glueVars, restVars>>

\* The same call with the arguments in the other order.
CollapseSwapped ==
    /\ ~cm_rev.done
    /\ \E r \in collapse_margins(cm_b, cm_a) : cm_rev' = r
    /\ UNCHANGED <<cm_a, cm_b, cm_ret, hyphVars, splitVars, fontVars, glueVars, restVars>>

NextMargins == CollapseMargins \/ CollapseSwapped
SpecMargins == InitMargins /\ [][NextMargins]_vars

\* C1: collapse_margins(a, b) is max(a, b) when both are >= 0, min(a, b) when
\* both are < 0 and a + b otherwise, for all i32 a and b.
C1_CollapseCases ==
    cm_ret.done =>
        /\ ~cm_ret.panic
        /\ (cm_a >= 0 /\ cm_b >= 0) =>
              /\ cm_ret.val \in {cm_a, cm_b} /\ cm_ret.val >= cm_a /\ cm_ret.val >= cm_b
        /\ (cm_a < 0 /\ cm_b < 0) =>
              /\ cm_ret.val \in {cm_a, cm_b} /\ cm_ret.val <= cm_a /\ cm_ret.val <= cm_b
        /\ ((cm_a < 0) # (cm_b < 0)) => cm_ret.val = cm_a + cm_b
        /\ (cm_a = 10 /\ cm_b = 20) => cm_ret.val = 20
        /\ (cm_a = -10 /\ cm_b = -20) => cm_ret.val = -20
        /\ (cm_a = 10 /\ cm_b = -20) => cm_ret.val = -10

C1_Witness == cm_ret.done /\ cm_a = 0 /\ cm_b = I32_MIN /\ cm_ret.val = I32_MIN

\* The result over the unbounded integers; a + b is only written where the
\* signs differ.
UnboundedCollapse(a, b) ==
    IF a >= 0 /\ b >= 0 THEN (IF a >= b THEN a ELSE b)
    ELSE IF a < 0 /\ b < 0 THEN (IF a <= b THEN a ELSE b)
    ELSE a + b

\* C15: collapse_margins never overflows: it evaluates a + b exactly when one
\* of a and b is negative and the other is not, that sum is within the i32
\* range, and the result is the result over the unbounded integers.
C15_NoOverflow ==
    /\ cm_ret.done =>
          /\ ~cm_ret.panic
          /\ cm_ret.added <=> ((cm_a < 0) # (cm_b < 0))
          /\ cm_ret.added => ~AddOverflows(cm_a, cm_b)
          /\ cm_ret.val = UnboundedCollapse(cm_a, cm_b)
          /\ I32_MIN <= cm_ret.val /\ cm_ret.val <= I32_MAX
    /\ cm_rev.done =>
          /\ ~cm_rev.panic
          /\ cm_rev.added <=> ((cm_a < 0) # (cm_b < 0))
          /\ cm_rev.val = UnboundedCollapse(cm_b, cm_a)

C15_Witness ==
    /\ cm_ret.done /\ cm_a = I32_MAX /\ cm_b = I32_MIN
    /\ cm_ret.added /\ ~cm_ret.panic /\ cm_ret.val = -1

\* C16: collapse_margins(a, b) = collapse_margins(b, a), and
\* collapse_margins(a, 0) = a = collapse_margins(0, a): a margin collapsed
\* against the zero margin of the default sibling style is unchanged.
C16_Commutative ==
    /\ (cm_ret.done /\ cm_rev.done) => (cm_ret.val = cm_rev.val /\ cm_ret.panic = cm_rev.panic)
    /\ (cm_ret.done /\ cm_b = 0) => (cm_ret.val = cm_a /\ ~cm_ret.panic)
    /\ (cm_rev.done /\ cm_b = 0) => (cm_rev.val = cm_a /\ ~cm_rev.panic)

C16_Witness ==
    /\ cm_ret.done /\ cm_rev.done
    /\ cm_a = -10 /\ cm_b = 20
    /\ cm_ret.val = 10 /\ cm_rev.val = 10

(***************************************************************************)
(* SpecialSplitter (layout.rs 479-517).  A text is its UTF-8 byte          *)
(* sequence; indices are byte offsets, as in the code.                     *)
(***************************************************************************)
HYPHEN      == <<45>>              \* '-'
EN_DASH     == <<226, 128, 147>>   \* U+2013
EM_DASH     == <<226, 128, 148>>   \* U+2014
SLASH       == <<47>>              \* '/'
AT_SIGN     == <<64>>              \* '@'
LETTER_A    == <<97>>              \* 'a'
E_ACUTE     == <<195, 169>>        \* U+00E9, two bytes, not special
FIGURE_DASH == <<226, 128, 146>>   \* U+2012, shares two bytes with the dashes, not special

SPECIAL_CHARS == HYPHEN \o EN_DASH \o EM_DASH \o SLASH \o AT_SIGN

\* Length of the UTF-8 encoding of the character whose first byte is b.
Utf8Len(b) == IF b < 128 THEN 1 ELSE IF b < 224 THEN 2 ELSE IF b < 240 THEN 3 ELSE 4

IsContinuation(b) == b >= 128 /\ b < 192

\* str::is_char_boundary
IsCharBoundary(t, i) ==
    i = 0 \/ i = Len(t) \/ (i > 0 /\ i < Len(t) /\ ~IsContinuation(t[i + 1]))

\* The character of t that starts at byte offset i.
CharAt(t, i) == SubSeq(t, i + 1, i + Utf8Len(t[i + 1]))

\* str::chars
RECURSIVE Chars(_)
Chars(t) == IF t = <<>> THEN <<>> ELSE <<CharAt(t, 0)>> \o Chars(SubSeq(t, Utf8Len(t[1]) + 1, Len(t)))

\* A comparison of first bytes instead of whole characters.
IsSpecial_first_byte(c) == \E k \in DOMAIN Chars(SPECIAL_CHARS) : Chars(SPECIAL_CHARS)[k][1] = c[1]

\* SPECIAL_CHARS.contains(c)
IsSpecial(c) == \E k \in DOMAIN Chars(SPECIAL_CHARS) : Chars(SPECIAL_CHARS)[k] = c

\* &t[from..]: defined on character boundaries only (the code panics elsewhere).
SliceOk(t, from, to) == from <= to /\ to <= Len(t) /\ IsCharBoundary(t, from) /\ IsCharBoundary(t, to)
Slice(t, from, to) == SubSeq(t, from + 1, to)

\* str::find with a predicate on characters: the byte offset of the first
\* character of u that is special (want = TRUE) or not special (want = FALSE).
RECURSIVE FindFrom(_, _, _)
FindFrom(u, i, want) ==
    IF i >= Len(u) THEN [some |-> FALSE, val |-> 0]
    ELSE IF IsSpecial(CharAt(u, i)) = want THEN Some(i)
    ELSE FindFrom(u, i + Utf8Len(u[i + 1]), want)

find(u, want) == FindFrom(u, 0, want)

\* new() stopping at the first special character instead of after its run.
new_next_at_special(t) ==
    LET f == find(t, TRUE) IN IF f.some THEN f.val ELSE Len(t)

\* new() with unwrap_or(0) in place of unwrap_or(text.len()).
new_next_unwrap_or_zero(t) ==
    LET f == find(t, TRUE) IN
    IF ~f.some THEN 0
    ELSE LET g == find(Slice(t, f.val, Len(t)), FALSE) IN
         IF g.some THEN f.val + g.val ELSE 0

\* new() counting characters instead of bytes.
new_next_char_index(t) ==
    LET cs == Chars(t)
        sp == {k \in DOMAIN cs : IsSpecial(cs[k])} IN
    IF sp = {} THEN Len(t)
    ELSE LET i == CHOOSE k \in sp : \A j \in sp : k <= j
             ns == {k \in DOMAIN cs : k > i /\ ~IsSpecial(cs[k])} IN
         IF ns = {} THEN Len(t) ELSE (CHOOSE k \in ns : \A j \in ns : k <= j) - 1

\* The next field computed by new(): the end of the first run of special
\* characters, or the end of the text.
new_next(t) ==
    LET f == find(t, TRUE) IN
    IF ~f.some THEN Len(t)
    ELSE LET g == find(Slice(t, f.val, Len(t)), FALSE) IN
         IF g.some THEN f.val + g.val ELSE Len(t)

\* next() stopping at the first special character instead of after its run.
scan_next_at_special(t, cur) ==
    LET f == find(Slice(t, cur, Len(t)), TRUE) IN
    IF ~f.some \/ f.val = 0 THEN Len(t) ELSE cur + f.val

\* next() forgetting to add self.current to the offsets found in the slice.
scan_next_relative(t, cur) ==
    LET f == find(Slice(t, cur, Len(t)), TRUE) IN
    IF ~f.some THEN Len(t)
    ELSE LET g == find(Slice(t, cur + f.val, Len(t)), FALSE) IN
         IF g.some THEN f.val + g.val ELSE Len(t)

\* The next field computed by next() once current has moved to cur.
scan_next(t, cur) ==
    LET f == find(Slice(t, cur, Len(t)), TRUE) IN
    IF ~f.some THEN Len(t)
    ELSE LET g == find(Slice(t, cur + f.val, Len(t)), FALSE) IN
         IF g.some THEN cur + f.val + g.val ELSE Len(t)

Alphabet == {HYPHEN, EN_DASH, EM_DASH, SLASH, AT_SIGN, LETTER_A, E_ACUTE, FIGURE_DASH}

\* "co-operate/re-read" and a run mixing one-, two- and three-byte characters.
SampleTexts ==
    { <<99, 111, 45, 111, 112, 101, 114, 97, 116, 101, 47, 114, 101, 45, 114, 101, 97, 100>>,
      Flatten(<<LETTER_A, EN_DASH, EM_DASH, E_ACUTE, FIGURE_DASH, AT_SIGN, SLASH, LETTER_A, HYPHEN>>) }

Texts == {Flatten(cs) : cs \in SeqsUpTo(Alphabet, MaxTextLen)} \cup SampleTexts

NoRet == [called |-> FALSE, some |-> FALSE, val |-> <<>>, panic |-> FALSE]

InitSplitter ==
    /\ text \in Texts
    /\ current = 0
    /\ next = new_next(text)
    /\ ret = NoRet
    /\ yielded = <<>>
    /\ calls = 0
    /\ IdleMargins /\ IdleHyph /\ IdleFonts /\ IdleGlue /\ IdleRest

\* next() at the end of the text: None.
NextNone ==
    /\ ~ret.panic
    /\ current = Len(text)
    /\ calls < Len(yielded) + ExtraCalls
    /\ ret' = [called |-> TRUE, some |-> FALSE, val |-> <<>>, panic |-> FALSE]
    /\ calls' = calls + 1
    /\ UNCHANGED <<text, current, next, yielded, marginVars, hyphVars, fontVars, glueVars, restVars>>

\* next() before the end: move current to next, rescan, yield text[current..next].
NextSome ==
    /\ ~ret.panic
    /\ current # Len(text)
    /\ Len(yielded) <= Len(text)
    /\ calls' = calls + 1
    /\ IF SliceOk(text, next, Len(text)) /\ SliceOk(text, current, next)
       THEN /\ current' = next
            /\ next' = scan_next(text, next)
            /\ ret' = [called |-> TRUE, some |-> TRUE, val |-> Slice(text, current, next), panic |-> FALSE]
            /\ yielded' = Append(yielded, [from |-> current, to |-> next, seg |-> Slice(text, current, next)])
       ELSE /\ ret' = [called |-> TRUE, some |-> FALSE, val |-> <<>>, panic |-> TRUE]
            /\ UNCHANGED <<current, next, yielded>>
    /\ UNCHANGED <<text, marginVars, hyphVars, fontVars, glueVars, restVars>>

NextSplitter == NextNone \/ NextSome
SpecSplitter == InitSplitter /\ [][NextSplitter]_vars

Segments == [k \in DOMAIN yielded |-> yielded[k].seg]
Exhausted == ret.called /\ ~ret.some /\ ~ret.panic

(***************************************************************************)
(* Claims about SpecialSplitter.                                           *)
(***************************************************************************)
\* The special characters as the specification lists them: - – — / @
SpecialSet == {HYPHEN, EN_DASH, EM_DASH, SLASH, AT_SIGN}

AllSpecial(seg) == \A k \in DOMAIN Chars(seg) : Chars(seg)[k] \in SpecialSet
NoSpecial(seg) == \A k \in DOMAIN Chars(seg) : Chars(seg)[k] \notin SpecialSet
LastChar(seg) == Chars(seg)[Len(Chars(seg))]

\* C3 as stated: every yielded segment is a run of special characters only or
\* of non-special characters only.
C3_Original == \A k \in DOMAIN yielded : AllSpecial(yielded[k].seg) \/ NoSpecial(yielded[k].seg)

\* C3 amended: every yielded segment is a non-empty run of non-special
\* characters followed by a run of special characters (either run may be
\* empty): inside a segment no special character is followed by a non-special
\* one, and a segment ends at the end of the text or right after a special
\* character that a non-special character follows.
C3_SegmentShape ==
    \A k \in DOMAIN yielded :
        LET cs == Chars(yielded[k].seg) IN
        /\ Len(cs) > 0
        /\ \A i \in 1..(Len(cs) - 1) : cs[i] \in SpecialSet => cs[i + 1] \in SpecialSet
        /\ \/ yielded[k].to = Len(text)
           \/ /\ LastChar(yielded[k].seg) \in SpecialSet
              /\ CharAt(text, yielded[k].to) \notin SpecialSet

C3_Witness ==
    /\ Len(yielded) >= 2
    /\ ~AllSpecial(yielded[1].seg) /\ ~NoSpecial(yielded[1].seg)
    /\ Len(yielded[1].seg) >= 4

\* C4: when next() has returned None, the segments yielded so far, concatenated
\* in order, are the input text; no call fails on the way, and at every moment
\* the segments yielded so far are the text up to current.
C4_RoundTrip ==
    /\ ~ret.panic
    /\ Flatten(Segments) = SubSeq(text, 1, current)
    /\ Exhausted => Flatten(Segments) = text

C4_Witness == Exhausted /\ Len(yielded) >= 3 /\ Len(text) > Len(Chars(text)) /\ Flatten(Segments) = text

\* C5 as stated: a text with no special character yields exactly one segment,
\* the whole text.
C5_Original ==
    (Exhausted /\ NoSpecial(text)) => (Len(yielded) = 1 /\ yielded[1].seg = text)

\* C5 amended: a non-empty text with no special character yields exactly one
\* segment, the whole text (the empty text yields no segment).
C5_OneSegment ==
    NoSpecial(text) =>
        /\ Len(yielded) <= 1
        /\ Len(yielded) = 1 => yielded[1].seg = text
        /\ (ret.called /\ text # <<>>) => (Len(yielded) = 1 /\ ~ret.panic)
        /\ (ret.called /\ text = <<>>) => (Len(yielded) = 0 /\ ~ret.some)

C5_Witness == Exhausted /\ NoSpecial(text) /\ Len(Chars(text)) = 3 /\ Len(text) > 3 /\ Len(yielded) = 1

\* C7: over a text of n bytes next() yields at most n segments, each a
\* non-empty slice of the text that starts where the previous one ended (the
\* first at byte 0); before the end of the text next() always has a segment
\* to give; once next() has returned None it returns None ever after.
C7_StepsForward ==
    /\ ~ret.panic
    /\ Len(yielded) <= Len(text)
    /\ \A k \in DOMAIN yielded :
          /\ yielded[k].from = (IF k = 1 THEN 0 ELSE yielded[k - 1].to)
          /\ yielded[k].from < yielded[k].to
          /\ yielded[k].to <= Len(text)
          /\ yielded[k].seg = SubSeq(text, yielded[k].from + 1, yielded[k].to)
    /\ current = (IF yielded = <<>> THEN 0 ELSE yielded[Len(yielded)].to)
    /\ current < Len(text) => current < next
    /\ (ret.called /\ ~ret.some) => current = Len(text)

\* C7, as a property of behaviours: C7_StepsForward holds in every state and a
\* splitter that has returned None keeps returning None and yields no more.
C7_FiniteForward ==
    /\ []C7_StepsForward
    /\ [][Exhausted => (Exhausted' /\ yielded' = yielded)]_vars

C7_Witness == Exhausted /\ calls = Len(yielded) + ExtraCalls /\ Len(yielded) >= 3

\* The offsets strictly inside the text where one yielded segment ends and
\* the next begins.
SegmentBoundaries == {yielded[k].to : k \in 1..(Len(yielded) - 1)}

\* The offsets p strictly inside t where a special character ends and a
\* non-special character begins.
SpecialThenPlain(t) ==
    {p \in 1..(Len(t) - 1) :
        /\ IsCharBoundary(t, p)
        /\ LastChar(SubSeq(t, 1, p)) \in SpecialSet
        /\ CharAt(t, p) \notin SpecialSet}

\* C13: once the splitter is exhausted, the offsets 0 < p < len between two
\* consecutive segments are exactly those where the character ending at p is
\* special and the character starting at p is not; "co-operate/re-read" is
\* cut after "co-", "operate/" and "re-".
C13_BreakPoints ==
    /\ SegmentBoundaries \subseteq SpecialThenPlain(text)
    /\ \A p \in SpecialThenPlain(text) : p < current => p \in SegmentBoundaries
    /\ Exhausted =>
          /\ SegmentBoundaries = SpecialThenPlain(text)
          /\ text = <<99, 111, 45, 111, 112, 101, 114, 97, 116, 101, 47, 114, 101, 45, 114, 101, 97, 100>>
                => SegmentBoundaries = {3, 11, 14}

C13_Witness ==
    /\ Exhausted
    /\ text = <<99, 111, 45, 111, 112, 101, 114, 97, 116, 101, 47, 114, 101, 45, 114, 101, 97, 100>>
    /\ Len(yielded) = 4
    /\ yielded[2].seg = <<111, 112, 101, 114, 97, 116, 101, 47>>

\* C14: 0 <= current <= next <= text.len(), both on character boundaries of
\* the text, and current < next while current < text.len(); so no call of
\* next() panics in a slice or yields an empty segment.
C14_Indices ==
    /\ 0 <= current /\ current <= next /\ next <= Len(text)
    /\ IsCharBoundary(text, current) /\ IsCharBoundary(text, next)
    /\ current < Len(text) => current < next
    /\ ~ret.panic
    /\ ret.some => ret.val # <<>>
    /\ \A k \in DOMAIN yielded : yielded[k].seg # <<>>

C14_Witness ==
    /\ 0 < current /\ current < next /\ next <= Len(text)
    /\ CharAt(text, 0) = EN_DASH
    /\ LastChar(SubSeq(text, 1, next)) = EM_DASH
    /\ Len(yielded) = 1

(***************************************************************************)
(* hyph_lang (layout.rs 352-367) and its table (layout.rs 370-450).  A     *)
(* string is its sequence of characters, each a one-character string;      *)
(* KELVIN_SIGN and CAPITAL_I_DOT are the characters U+212A and U+0130,     *)
(* whose lowercase forms are "k" and "i" followed by U+0307.               *)
(***************************************************************************)
KELVIN_SIGN   == "U+212A"
CAPITAL_I_DOT == "U+0130"
COMBINING_DOT == "U+0307"

\* The table's rows in source order.
HYPHENATION_LANGUAGES ==
    <<
      <<<<"a", "f">>, "Afrikaans">>,
      <<<<"h", "y">>, "Armenian">>,
      <<<<"a", "s">>, "Assamese">>,
      <<<<"e", "u">>, "Basque">>,
      <<<<"b", "e">>, "Belarusian">>,
      <<<<"b", "n">>, "Bengali">>,
      <<<<"b", "g">>, "Bulgarian">>,
      <<<<"c", "a">>, "Catalan">>,
      <<<<"z", "h", "-", "l", "a", "t", "n", "-", "p", "i", "n", "y", "i", "n">>, "Chinese">>,
      <<<<"c", "o", "p">>, "Coptic">>,
      <<<<"h", "r">>, "Croatian">>,
      <<<<"c", "s">>, "Czech">>,
      <<<<"d", "a">>, "Danish">>,
      <<<<"n", "l">>, "Dutch">>,
      <<<<"e", "n", "-", "g", "b">>, "EnglishGB">>,
      <<<<"e", "n", "-", "u", "s">>, "EnglishUS">>,
      <<<<"e", "n">>, "EnglishUS">>,
      <<<<"e", "o">>, "Esperanto">>,
      <<<<"e", "t">>, "Estonian">>,
      <<<<"m", "u", "l", "-", "e", "t", "h", "i">>, "Ethiopic">>,
      <<<<"f", "i">>, "Finnish">>,
      <<<<"f", "r">>, "French">>,
      <<<<"f", "u", "r">>, "Friulan">>,
      <<<<"g", "l">>, "Galician">>,
      <<<<"k", "a">>, "Georgian">>,
      <<<<"d", "e">>, "German1996">>,
      <<<<"d", "e", "-", "1", "9", "0", "1">>, "German1901">>,
      <<<<"d", "e", "-", "1", "9", "9", "6">>, "German1996">>,
      <<<<"d", "e", "-", "c", "h", "-", "1", "9", "0", "1">>, "GermanSwiss">>,
      <<<<"d", "e", "-", "c", "h">>, "GermanSwiss">>,
      <<<<"g", "r", "c">>, "GreekAncient">>,
      <<<<"e", "l", "-", "m", "o", "n", "o", "t", "o", "n">>, "GreekMono">>,
      <<<<"e", "l", "-", "p", "o", "l", "y", "t", "o", "n">>, "GreekPoly">>,
      <<<<"g", "u">>, "Gujarati">>,
      <<<<"h", "i">>, "Hindi">>,
      <<<<"h", "u">>, "Hungarian">>,
      <<<<"i", "s">>, "Icelandic">>,
      <<<<"i", "d">>, "Indonesian">>,
      <<<<"i", "a">>, "Interlingua">>,
      <<<<"g", "a">>, "Irish">>,
      <<<<"i", "t">>, "Italian">>,
      <<<<"k", "n">>, "Kannada">>,
      <<<<"k", "m", "r">>, "Kurmanji">>,
      <<<<"l", "a">>, "Latin">>,
      <<<<"l", "a", "-", "x", "-", "c", "l", "a", "s", "s", "i", "c">>, "LatinClassic">>,
      <<<<"l", "a", "-", "x", "-", "l", "i", "t", "u", "r", "g", "i", "c">>, "LatinLiturgical">>,
      <<<<"l", "v">>, "Latvian">>,
      <<<<"l", "t">>, "Lithuanian">>,
      <<<<"m", "l">>, "Malayalam">>,
      <<<<"m", "r">>, "Marathi">>,
      <<<<"m", "n", "-", "c", "y", "r", "l">>, "Mongolian">>,
      <<<<"n", "b">>, "NorwegianBokmal">>,
      <<<<"n", "n">>, "NorwegianNynorsk">>,
      <<<<"o", "c">>, "Occitan">>,
      <<<<"o", "r">>, "Oriya">>,
      <<<<"p", "i">>, "Pali">>,
      <<<<"p", "a">>, "Panjabi">>,
      <<<<"p", "m", "s">>, "Piedmontese">>,
      <<<<"p", "l">>, "Polish">>,
      <<<<"p", "t">>, "Portuguese">>,
      <<<<"r", "o">>, "Romanian">>,
      <<<<"r", "m">>, "Romansh">>,
      <<<<"r", "u">>, "Russian">>,
      <<<<"s", "a">>, "Sanskrit">>,
      <<<<"s", "r", "-", "c", "y", "r", "l">>, "SerbianCyrillic">>,
      <<<<"s", "h", "-", "c", "y", "r", "l">>, "SerbocroatianCyrillic">>,
      <<<<"s", "h", "-", "l", "a", "t", "n">>, "SerbocroatianLatin">>,
      <<<<"c", "u">>, "SlavonicChurch">>,
      <<<<"s", "k">>, "Slovak">>,
      <<<<"s", "l">>, "Slovenian">>,
      <<<<"e", "s">>, "Spanish">>,
      <<<<"s", "v">>, "Swedish">>,
      <<<<"t", "a">>, "Tamil">>,
      <<<<"t", "e">>, "Telugu">>,
      <<<<"t", "h">>, "Thai">>,
      <<<<"t", "r">>, "Turkish">>,
      <<<<"t", "k">>, "Turkmen">>,
      <<<<"u", "k">>, "Ukrainian">>,
      <<<<"h", "s", "b">>, "Uppersorbian">>,
      <<<<"c", "y">>, "Welsh">>
    >>

UpperAscii == <<"A", "B", "C", "D", "E", "F", "G", "H", "I", "J", "K", "L", "M",
                "N", "O", "P", "Q", "R", "S", "T", "U", "V", "W", "X", "Y", "Z">>
LowerAscii == <<"a", "b", "c", "d", "e", "f", "g", "h", "i", "j", "k", "l", "m",
                "n", "o", "p", "q", "r", "s", "t", "u", "v", "w", "x", "y", "z">>

\* char::to_lowercase: the lowercase form of one character, a string of one
\* or two characters.
char_to_lowercase(c) ==
    IF \E k \in DOMAIN UpperAscii : UpperAscii[k] = c
    THEN <<LowerAscii[CHOOSE k \in DOMAIN UpperAscii : UpperAscii[k] = c]>>
    ELSE IF c = KELVIN_SIGN THEN <<"k">>
    ELSE IF c = CAPITAL_I_DOT THEN <<"i", COMBINING_DOT>>
    ELSE <<c>>

\* str::to_lowercase
to_lowercase(str) == Flatten([k \in DOMAIN str |-> char_to_lowercase(str[k])])

\* HashMap::get on the map collected from the rows: of rows with equal keys the
\* last one inserted stays.
get(map, key) ==
    LET hits == {k \in DOMAIN map : map[k][1] = key} IN
    IF hits = {} THEN [some |-> FALSE, val |-> "-"]
    ELSE Some(map[CHOOSE k \in hits : \A j \in hits : j <= k][2])

\* str::find('-') in place of rfind: the first '-', not the last.
rfind_dash_first(str) ==
    LET hits == {k \in DOMAIN str : str[k] = "-"} IN
    IF hits = {} THEN [some |-> FALSE, val |-> 0]
    ELSE Some((CHOOSE k \in hits : \A j \in hits : k <= j) - 1)

\* s.rfind('-'): the offset of the last '-' of str.
rfind_dash(str) ==
    LET hits == {k \in DOMAIN str : str[k] = "-"} IN
    IF hits = {} THEN [some |-> FALSE, val |-> 0]
    ELSE Some((CHOOSE k \in hits : \A j \in hits : j <= k) - 1)

\* &s[..=index]: a truncation that keeps the '-'.
truncate_inclusive(str, index) == SubSeq(str, 1, index + 1)

\* &s[..index]
truncate(str, index) == SubSeq(str, 1, index)

\* The subtags the tags of the model are made of.
Subtags ==
    { <<>>, <<"e", "n">>, <<"E", "N">>, <<"G", "B">>, <<"d", "e">>, <<"D", "E">>,
      <<"C", "H">>, <<"Z", "Z", "Z">>, <<"u", "u", "u">>, <<"z", "h">>,
      <<"l", "a", "t", "n">>, <<"p", "i", "n", "y", "i", "n">>, <<"y">>,
      <<"1", "9", "0", "1">>, <<KELVIN_SIGN, "a">>, <<CAPITAL_I_DOT, "t">> }

\* The subtags joined by '-'.
RECURSIVE Join(_)
Join(parts) ==
    IF parts = <<>> THEN <<>>
    ELSE IF Len(parts) = 1 THEN parts[1]
    ELSE parts[1] \o <<"-">> \o Join(Tail(parts))

Tags == {Join(parts) : parts \in SeqsUpTo(Subtags, MaxSubtags)}

NoLang == [some |-> FALSE, val |-> "-"]

InitHyph ==
    /\ name \in Tags
    /\ s = <<>>
    /\ hl_pc = "exact"
    /\ hl_ret = NoLang
    /\ hl_iters = 0
    /\ IdleMargins /\ IdleSplit /\ IdleFonts /\ IdleGlue /\ IdleRest

\* HYPHENATION_LANGUAGES.get(name)
HyphExact ==
    /\ hl_pc = "exact"
    /\ LET opt == get(HYPHENATION_LANGUAGES, name) IN
       IF opt.some THEN hl_ret' = opt /\ hl_pc' = "done"
       ELSE hl_pc' = "lower" /\ UNCHANGED hl_ret
    /\ UNCHANGED <<name, s, hl_iters, marginVars, splitVars, fontVars, glueVars, restVars>>

\* .or_else(|| HYPHENATION_LANGUAGES.get(name.to_lowercase().as_str())); on a
\* miss the second closure starts with s = name.to_lowercase().
HyphLower ==
    /\ hl_pc = "lower"
    /\ LET opt == get(HYPHENATION_LANGUAGES, to_lowercase(name)) IN
       IF opt.some THEN hl_ret' = opt /\ hl_pc' = "done" /\ UNCHANGED s
       ELSE hl_pc' = "loop" /\ s' = to_lowercase(name) /\ UNCHANGED hl_ret
    /\ UNCHANGED <<name, hl_iters, marginVars, splitVars, fontVars, glueVars, restVars>>

\* One iteration of the while let loop: cut s before its last '-' and look it up.
HyphStrip ==
    /\ hl_pc = "loop"
    /\ rfind_dash(s).some
    /\ hl_iters <= Len(to_lowercase(name))
    /\ LET t == truncate(s, rfind_dash(s).val)
           opt == get(HYPHENATION_LANGUAGES, t) IN
       /\ s' = t
       /\ hl_iters' = hl_iters + 1
       /\ IF opt.some THEN hl_ret' = opt /\ hl_pc' = "done"
          ELSE UNCHANGED <<hl_ret, hl_pc>>
    /\ UNCHANGED <<name, marginVars, splitVars, fontVars, glueVars, restVars>>

\* The loop's exit: s has no '-' left, the result is None.
HyphNone ==
    /\ hl_pc = "loop"
    /\ ~rfind_dash(s).some
    /\ hl_ret' = NoLang
    /\ hl_pc' = "done"
    /\ UNCHANGED <<name, s, hl_iters, marginVars, splitVars, fontVars, glueVars, restVars>>

NextHyph == HyphExact \/ HyphLower \/ HyphStrip \/ HyphNone
SpecHyph == InitHyph /\ [][NextHyph]_vars

(***************************************************************************)
(* Claims about hyph_lang.                                                 *)
(***************************************************************************)
TableKeys == {HYPHENATION_LANGUAGES[k][1] : k \in DOMAIN HYPHENATION_LANGUAGES}
EntryOf(key) == HYPHENATION_LANGUAGES[CHOOSE k \in DOMAIN HYPHENATION_LANGUAGES : HYPHENATION_LANGUAGES[k][1] = key][2]

\* The lengths of the prefixes of tag that are the whole tag or end just
\* before a '-', and are keys of the table.
KeyPrefixes(tag) ==
    {n \in 0..Len(tag) : (n = Len(tag) \/ tag[n + 1] = "-") /\ SubSeq(tag, 1, n) \in TableKeys}

LongestKeyPrefix(tag) ==
    SubSeq(tag, 1, CHOOSE n \in KeyPrefixes(tag) : \A m \in KeyPrefixes(tag) : m <= n)

Dashes(str) == Cardinality({k \in DOMAIN str : str[k] = "-"})

\* C2: hyph_lang returns the entry of the longest prefix of the lowercased tag
\* that is the whole tag or ends just before a '-' and is a key of the table,
\* so a region-qualified key wins over its bare-language key.
C2_LongestPrefix ==
    hl_pc = "done" =>
        /\ KeyPrefixes(to_lowercase(name)) # {} =>
              hl_ret = Some(EntryOf(LongestKeyPrefix(to_lowercase(name))))
        /\ name = <<"e", "n", "-", "G", "B">> => hl_ret = Some("EnglishGB")
        /\ name = <<"d", "e", "-", "C", "H", "-", "u", "u", "u">> => hl_ret = Some("GermanSwiss")
        /\ name = <<"D", "E", "-", "Z", "Z", "Z">> => hl_ret = Some("German1996")
        /\ name = <<"E", "N">> => hl_ret = Some("EnglishUS")
        /\ name = <<"z", "h", "-", "l", "a", "t", "n", "-", "p", "i", "n", "y", "i", "n">> => hl_ret = Some("Chinese")

C2_Witness ==
    /\ hl_pc = "done"
    /\ name = <<"d", "e", "-", "C", "H", "-", "u", "u", "u">>
    /\ hl_ret = Some("GermanSwiss")
    /\ hl_iters = 1

\* C6: hyph_lang returns for every string: the stripping loop removes one '-'
\* of the tag per iteration, so it runs at most once per '-' of the tag and
\* is never cut short by the model's cap on iterations, and the result is none exactly when no '-'-truncated prefix of the
\* lowercased tag, the whole of it included, is a key of the table.
C6_Total ==
    /\ hl_pc \in {"exact", "lower", "loop", "done"}
    /\ hl_iters <= Dashes(name)
    /\ hl_pc = "loop" =>
          /\ Dashes(s) + hl_iters = Dashes(name)
          /\ s = SubSeq(to_lowercase(name), 1, Len(s))
          /\ hl_iters <= Len(to_lowercase(name))
    /\ hl_pc = "done" => (~hl_ret.some <=> KeyPrefixes(to_lowercase(name)) = {})
    /\ (hl_pc = "done" /\ name = <<"y">>) => hl_ret = NoLang

C6_Witness ==
    /\ hl_pc = "done"
    /\ name = <<"-", "y", "-">>
    /\ hl_ret = NoLang
    /\ hl_iters = 2

(***************************************************************************)
(* Fonts::get_mut (layout.rs 177-237).  A face is the path of its field in *)
(* Fonts: <<"serif", "bold">>, <<"cursive">>.                              *)
(***************************************************************************)
FontKind   == {"Serif", "SansSerif", "Monospace", "Cursive", "Fantasy"}
FontStyle  == {"Normal", "Italic"}
FontWeight == {"Normal", "Bold"}

\* The fields of Fonts: three families of four faces and two single faces.
Fonts ==
    ({"serif", "sans_serif", "monospace"} \X {"regular", "bold", "italic", "bold_italic"})
    \cup {<<"cursive">>, <<"fantasy">>}

\* The match on (font_style, font_weight) inside one family.
family_face(family, font_style, font_weight) ==
    CASE font_style = "Normal" /\ font_weight = "Normal" -> <<family, "regular">>
      [] font_style = "Normal" /\ font_weight = "Bold"   -> <<family, "bold">>
      [] font_style = "Italic" /\ font_weight = "Normal" -> <<family, "italic">>
      [] font_style = "Italic" /\ font_weight = "Bold"   -> <<family, "bold_italic">>

\* get_mut with the Fantasy arm returning the cursive face.
get_mut_fantasy_as_cursive(font_kind, font_style, font_weight) ==
    CASE font_kind = "Serif"     -> family_face("serif", font_style, font_weight)
      [] font_kind = "SansSerif" -> family_face("sans_serif", font_style, font_weight)
      [] font_kind = "Monospace" -> family_face("monospace", font_style, font_weight)
      [] font_kind = "Cursive"   -> <<"cursive">>
      [] font_kind = "Fantasy"   -> <<"cursive">>

\* get_mut with the SansSerif arm reading the serif family.
get_mut_sans_as_serif(font_kind, font_style, font_weight) ==
    CASE font_kind = "Serif"     -> family_face("serif", font_style, font_weight)
      [] font_kind = "SansSerif" -> family_face("serif", font_style, font_weight)
      [] font_kind = "Monospace" -> family_face("monospace", font_style, font_weight)
      [] font_kind = "Cursive"   -> <<"cursive">>
      [] font_kind = "Fantasy"   -> <<"fantasy">>

get_mut(font_kind, font_style, font_weight) ==
    CASE font_kind = "Serif"     -> family_face("serif", font_style, font_weight)
      [] font_kind = "SansSerif" -> family_face("sans_serif", font_style, font_weight)
      [] font_kind = "Monospace" -> family_face("monospace", font_style, font_weight)
      [] font_kind = "Cursive"   -> <<"cursive">>
      [] font_kind = "Fantasy"   -> <<"fantasy">>

InitFonts ==
    /\ font_calls = <<>>
    /\ IdleMargins /\ IdleHyph /\ IdleSplit /\ IdleGlue /\ IdleRest

\* One call of get_mut; the face it returns is recorded with its arguments.
GetMut ==
    /\ Len(font_calls) < MaxFontCalls
    /\ \E k \in FontKind, st \in FontStyle, w \in FontWeight :
          font_calls' = Append(font_calls,
              [kind |-> k, style |-> st, weight |-> w, face |-> get_mut(k, st, w)])
    /\ UNCHANGED <<marginVars, hyphVars, splitVars, glueVars, restVars>>

NextFonts == GetMut
SpecFonts == InitFonts /\ [][NextFonts]_vars

\* C8: for Cursive and Fantasy, get_mut returns the single face of the kind
\* whatever the style and the weight.
C8_SingleFace ==
    \A i \in DOMAIN font_calls :
        /\ font_calls[i].kind = "Cursive" => font_calls[i].face = <<"cursive">>
        /\ font_calls[i].kind = "Fantasy" => font_calls[i].face = <<"fantasy">>
        /\ font_calls[i].face \in Fonts

C8_Witness ==
    /\ Len(font_calls) = 2
    /\ font_calls[1].kind = "Fantasy" /\ font_calls[2].kind = "Fantasy"
    /\ font_calls[1].style # font_calls[2].style
    /\ font_calls[1].weight # font_calls[2].weight
    /\ font_calls[1].face = font_calls[2].face

FamilyKinds == {"Serif", "SansSerif", "Monospace"}

FamilyName(kind) ==
    IF kind = "Serif" THEN "serif" ELSE IF kind = "SansSerif" THEN "sans_serif" ELSE "monospace"

FaceName(style, weight) ==
    IF style = "Normal"
    THEN (IF weight = "Normal" THEN "regular" ELSE "bold")
    ELSE (IF weight = "Normal" THEN "italic" ELSE "bold_italic")

\* C9: for Serif, SansSerif and Monospace, get_mut returns the face of the
\* family of the kind that (style, weight) selects; two calls with different
\* triples of these kinds return different faces; every call returns a face.
C9_FaceMatrix ==
    /\ \A i \in DOMAIN font_calls :
          /\ font_calls[i].face \in Fonts
          /\ font_calls[i].kind \in FamilyKinds =>
                font_calls[i].face =
                    <<FamilyName(font_calls[i].kind), FaceName(font_calls[i].style, font_calls[i].weight)>>
    /\ \A i, j \in DOMAIN font_calls :
          (/\ font_calls[i].kind \in FamilyKinds
           /\ font_calls[j].kind \in FamilyKinds
           /\ font_calls[i].face = font_calls[j].face)
          => (/\ font_calls[i].kind = font_calls[j].kind
              /\ font_calls[i].style = font_calls[j].style
              /\ font_calls[i].weight = font_calls[j].weight)

C9_Witness ==
    /\ Len(font_calls) = 2
    /\ font_calls[1].kind = "SansSerif" /\ font_calls[1].style = "Italic" /\ font_calls[1].weight = "Bold"
    /\ font_calls[1].face = <<"sans_serif", "bold_italic">>
    /\ font_calls[2].kind = "Monospace" /\ font_calls[2].style = "Italic" /\ font_calls[2].weight = "Bold"
    /\ font_calls[2].face = <<"monospace", "bold_italic">>

(***************************************************************************)
(* The space tables and FONT_SPACES (layout.rs 452-477).  A character is   *)
(* named by its code point; a ratio is given in hundredths.                *)
(***************************************************************************)
EM_SPACE_RATIOS ==
    << <<"U+2003", 100>>,   \* em space, 1.0
       <<"U+2002", 50>>,    \* en space, 0.5
       <<"U+2004", 33>>,    \* three-per-em space, 0.33
       <<"U+2005", 25>>,    \* four-per-em space, 0.25
       <<"U+2006", 16>> >>  \* six-per-em space, 0.16

\* The word-space table with the em space added to it.
WORD_SPACE_RATIOS_with_em_space ==
    << <<"U+0009", 400>>, <<"U+00A0", 100>>, <<"U+202F", 50>>, <<"U+2009", 50>>,
       <<"U+200A", 25>>, <<"U+2003", 100>> >>

WORD_SPACE_RATIOS ==
    << <<"U+0009", 400>>,   \* tabulation, 4.0
       <<"U+00A0", 100>>,   \* no-break space, 1.0
       <<"U+202F", 50>>,    \* narrow no-break space, 0.5
       <<"U+2009", 50>>,    \* thin space, 0.5
       <<"U+200A", 25>> >>  \* hair space, 0.25

\* " \u{2007}\u{2008}": the space, the figure space, the punctuation space.
FONT_SPACES == <<"U+0020", "U+2007", "U+2008">>

Keys(table) == {table[k][1] : k \in DOMAIN table}
Range(str) == {str[k] : k \in DOMAIN str}

\* The tables and constants that list the character c as a space.
space_lists(c) ==
    (IF c \in Keys(EM_SPACE_RATIOS) THEN {"EM_SPACE_RATIOS"} ELSE {})
    \cup (IF c \in Keys(WORD_SPACE_RATIOS) THEN {"WORD_SPACE_RATIOS"} ELSE {})
    \cup (IF c \in Range(FONT_SPACES) THEN {"FONT_SPACES"} ELSE {})

\* The ratios the two tables give for c.
space_ratios(c) ==
    {EM_SPACE_RATIOS[k][2] : k \in {j \in DOMAIN EM_SPACE_RATIOS : EM_SPACE_RATIOS[j][1] = c}}
    \cup {WORD_SPACE_RATIOS[k][2] : k \in {j \in DOMAIN WORD_SPACE_RATIOS : WORD_SPACE_RATIOS[j][1] = c}}

\* The characters of the scanned runs: the listed ones, other Unicode spaces
\* (en quad, em quad, line feed, zero width space, ideographic space) and a letter.
GlueAlphabet ==
    {"U+2003", "U+2002", "U+2004", "U+2005", "U+2006",
     "U+0009", "U+00A0", "U+202F", "U+2009", "U+200A",
     "U+0020", "U+2007", "U+2008",
     "U+2000", "U+2001", "U+000A", "U+200B", "U+3000", "U+0061"}

InitGlue ==
    /\ gl_text \in SeqsUpTo(GlueAlphabet, MaxGlueLen)
    /\ gl_pos = 0
    /\ gl_out = <<>>
    /\ IdleMargins /\ IdleHyph /\ IdleSplit /\ IdleFonts /\ IdleRest

\* The scan looks the next character of the run up in the tables and constants.
GlueScan ==
    /\ gl_pos < Len(gl_text)
    /\ gl_pos' = gl_pos + 1
    /\ gl_out' = Append(gl_out, [char |-> gl_text[gl_pos + 1],
                                 lists |-> space_lists(gl_text[gl_pos + 1]),
                                 ratios |-> space_ratios(gl_text[gl_pos + 1])])
    /\ UNCHANGED <<gl_text, marginVars, hyphVars, splitVars, fontVars, restVars>>

NextGlue == GlueScan
SpecGlue == InitGlue /\ [][NextGlue]_vars

EmSpaces   == {"U+2003", "U+2002", "U+2004", "U+2005", "U+2006"}
WordSpaces == {"U+0009", "U+00A0", "U+202F", "U+2009", "U+200A"}

\* C10 as stated: a character is listed as a space by the tables and constants
\* exactly when it is a key of EM_SPACE_RATIOS or of WORD_SPACE_RATIOS or the
\* plain ASCII space, and no character has two ratios.
C10_Original ==
    \A i \in DOMAIN gl_out :
        /\ gl_out[i].lists # {} <=> gl_out[i].char \in EmSpaces \cup WordSpaces \cup {"U+0020"}
        /\ Cardinality(gl_out[i].lists) <= 1

\* C10 amended: a character is listed as a space by the tables and constants
\* exactly when it is a key of EM_SPACE_RATIOS, a key of WORD_SPACE_RATIOS or
\* one of the three characters of FONT_SPACES (the ASCII space, the figure
\* space U+2007, the punctuation space U+2008); no character is in two of the
\* three lists, and every key of the two tables has exactly one ratio.
C10_GlueChars ==
    \A i \in DOMAIN gl_out :
        /\ gl_out[i].lists # {} <=>
              gl_out[i].char \in EmSpaces \cup WordSpaces \cup {"U+0020", "U+2007", "U+2008"}
        /\ Cardinality(gl_out[i].lists) <= 1
        /\ gl_out[i].char \in EmSpaces => gl_out[i].lists = {"EM_SPACE_RATIOS"}
        /\ gl_out[i].char \in WordSpaces => gl_out[i].lists = {"WORD_SPACE_RATIOS"}
        /\ gl_out[i].char \in EmSpaces \cup WordSpaces <=> Cardinality(gl_out[i].ratios) = 1
        /\ gl_out[i].char \notin EmSpaces \cup WordSpaces => gl_out[i].ratios = {}

C10_Witness ==
    /\ Len(gl_out) = 2
    /\ gl_out[1].char = "U+2007" /\ gl_out[1].lists = {"FONT_SPACES"} /\ gl_out[1].ratios = {}
    /\ gl_out[2].char = "U+2006" /\ gl_out[2].lists = {"EM_SPACE_RATIOS"} /\ gl_out[2].ratios = {16}

(***************************************************************************)
(* DrawCommand and DrawCommand::offset (layout.rs 285-325).  A command is  *)
(* [variant, cmd] for Text and Image and [variant, f0] for Marker(usize).  *)
(***************************************************************************)
Offsets == 0..MaxOffset
Points == [x : {0, 1}, y : {0}]
Rects == {[min |-> [x |-> 0, y |-> 0], max |-> [x |-> 1, y |-> 1]]}

TextCommand(o) ==
    [offset : {o}, position : Points, text : {"text"}, plan : {"plan"},
     font_kind : {"Serif"}, font_style : {"Normal"}, font_weight : {"Normal"},
     font_size : Offsets, color : {0, 1}, uri : {[some |-> FALSE, val |-> ""]}, rect : Rects]

ImageCommand(o) ==
    [offset : {o}, position : Points, scale : {1}, path : {"path"},
     uri : {[some |-> FALSE, val |-> ""]}, rect : Rects]

\* The commands that carry the source offset o.
DrawCommand(o) ==
    {[variant |-> "Text", cmd |-> c] : c \in TextCommand(o)}
    \cup {[variant |-> "Image", cmd |-> c] : c \in ImageCommand(o)}
    \cup {[variant |-> "Marker", f0 |-> o]}

\* offset() reading the font size of a Text command.
offset_text_font_size(self) ==
    CASE self.variant = "Text"   -> self.cmd.font_size
      [] self.variant = "Image"  -> self.cmd.offset
      [] self.variant = "Marker" -> self.f0

offset(self) ==
    CASE self.variant = "Text"   -> self.cmd.offset
      [] self.variant = "Image"  -> self.cmd.offset
      [] self.variant = "Marker" -> self.f0

InitDraw ==
    /\ dc_offset \in Offsets
    /\ dc_cmd \in DrawCommand(dc_offset)
    /\ dc_ret = [done |-> FALSE, val |-> 0]
    /\ IdleMargins /\ IdleHyph /\ IdleSplit /\ IdleFonts /\ IdleGlue /\ IdleDefaults /\ IdleView

CallOffset ==
    /\ ~dc_ret.done
    /\ dc_ret' = [done |-> TRUE, val |-> offset(dc_cmd)]
    /\ UNCHANGED <<dc_offset, dc_cmd, marginVars, hyphVars, splitVars, fontVars, glueVars, styleVars, viewVars>>

NextDraw == CallOffset
SpecDraw == InitDraw /\ [][NextDraw]_vars

\* C11: DrawCommand::offset returns the source offset the command was built
\* with, for a Text, an Image and a Marker, whatever the other fields hold.
C11_Offset == dc_ret.done => dc_ret.val = dc_offset

C11_Witness ==
    /\ dc_ret.done
    /\ dc_cmd.variant = "Text"
    /\ dc_cmd.cmd.font_size # dc_offset
    /\ dc_cmd.cmd.color # dc_offset
    /\ dc_ret.val = dc_offset
    /\ dc_offset = 2

(***************************************************************************)
(* StyleData, SiblingStyle, LineStats and their Default implementations    *)
(* (layout.rs 19-137).  The fields are public: between two constructions   *)
(* a caller may assign them.  life tells, for each of the three values,    *)
(* whether it is not constructed yet, fresh from default() or assigned.    *)
(***************************************************************************)
\* color::BLACK and geom::Edge::default(), defined outside layout.rs.
BLACK == "BLACK"
WHITE == "WHITE"
Edge_default == [top |-> 0, right |-> 0, bottom |-> 0, left |-> 0]

Display   == {"Block", "Inline"}
TextAlign == {"Left", "Right", "Center", "Justify"}
NoneValue == [some |-> FALSE, val |-> ""]

\* StyleData::default() with a sans-serif font kind.
StyleData_default_sans_serif ==
    [display |-> "Block", width |-> 0, height |-> 0,
     margin |-> Edge_default, padding |-> Edge_default,
     start_x |-> 0, end_x |-> 0, retain_whitespace |-> FALSE,
     text_align |-> "Left", text_indent |-> 0, line_height |-> 0,
     language |-> NoneValue, font_kind |-> "SansSerif", font_style |-> "Normal",
     font_weight |-> "Normal", font_size |-> 0, font_features |-> NoneValue,
     color |-> BLACK, letter_spacing |-> 0, vertical_align |-> 0, uri |-> NoneValue]

\* impl Default for StyleData
StyleData_default ==
    [display |-> "Block", width |-> 0, height |-> 0,
     margin |-> Edge_default, padding |-> Edge_default,
     start_x |-> 0, end_x |-> 0, retain_whitespace |-> FALSE,
     text_align |-> "Left", text_indent |-> 0, line_height |-> 0,
     language |-> NoneValue, font_kind |-> "Serif", font_style |-> "Normal",
     font_weight |-> "Normal", font_size |-> 0, font_features |-> NoneValue,
     color |-> BLACK, letter_spacing |-> 0, vertical_align |-> 0, uri |-> NoneValue]

\* impl Default for SiblingStyle
SiblingStyle_default == [padding_bottom |-> 0, margin_bottom |-> 0]

\* impl Default for LineStats
LineStats_default == [width |-> 0, merged_width |-> 0, glues_count |-> 0, started |-> FALSE]

FieldValues == (-MaxField)..MaxField
CountValues == 0..MaxField

InitDefaults ==
    /\ style_data = <<>>
    /\ sibling_style = <<>>
    /\ line_stats = <<>>
    /\ life = [StyleData |-> "none", SiblingStyle |-> "none", LineStats |-> "none"]
    /\ IdleMargins /\ IdleHyph /\ IdleSplit /\ IdleFonts /\ IdleGlue /\ IdleDraw /\ IdleView

NewStyleData ==
    /\ style_data' = StyleData_default
    /\ life' = [life EXCEPT !.StyleData = "fresh"]
    /\ UNCHANGED <<sibling_style, line_stats, marginVars, hyphVars, splitVars, fontVars, glueVars, drawVars, viewVars>>

NewSiblingStyle ==
    /\ sibling_style' = SiblingStyle_default
    /\ life' = [life EXCEPT !.SiblingStyle = "fresh"]
    /\ UNCHANGED <<style_data, line_stats, marginVars, hyphVars, splitVars, fontVars, glueVars, drawVars, viewVars>>

NewLineStats ==
    /\ line_stats' = LineStats_default
    /\ life' = [life EXCEPT !.LineStats = "fresh"]
    /\ UNCHANGED <<style_data, sibling_style, marginVars, hyphVars, splitVars, fontVars, glueVars, drawVars, viewVars>>

\* A caller assigns one public field of the StyleData.
AssignStyleData ==
    /\ life.StyleData # "none"
    /\ \/ \E d \in Display : style_data' = [style_data EXCEPT !.display = d]
       \/ \E k \in FontKind : style_data' = [style_data EXCEPT !.font_kind = k]
       \/ \E st \in FontStyle : style_data' = [style_data EXCEPT !.font_style = st]
       \/ \E w \in FontWeight : style_data' = [style_data EXCEPT !.font_weight = w]
       \/ \E m \in FieldValues : style_data' = [style_data EXCEPT !.margin.bottom = m, !.padding.bottom = m]
       \/ \E c \in {BLACK, WHITE} : style_data' = [style_data EXCEPT !.color = c]
    /\ life' = [life EXCEPT !.StyleData = "assigned"]
    /\ UNCHANGED <<sibling_style, line_stats, marginVars, hyphVars, splitVars, fontVars, glueVars, drawVars, viewVars>>

\* A caller assigns the public fields of the SiblingStyle.
AssignSiblingStyle ==
    /\ life.SiblingStyle # "none"
    /\ sibling_style' \in [padding_bottom : FieldValues, margin_bottom : FieldValues]
    /\ life' = [life EXCEPT !.SiblingStyle = "assigned"]
    /\ UNCHANGED <<style_data, line_stats, marginVars, hyphVars, splitVars, fontVars, glueVars, drawVars, viewVars>>

\* A caller assigns the public fields of the LineStats.
AssignLineStats ==
    /\ life.LineStats # "none"
    /\ \E w \in CountValues, g \in CountValues, b \in BOOLEAN :
          line_stats' = [width |-> w, merged_width |-> w + g, glues_count |-> g, started |-> b]
    /\ life' = [life EXCEPT !.LineStats = "assigned"]
    /\ UNCHANGED <<style_data, sibling_style, marginVars, hyphVars, splitVars, fontVars, glueVars, drawVars, viewVars>>

NextDefaults ==
    \/ NewStyleData \/ NewSiblingStyle \/ NewLineStats
    \/ AssignStyleData \/ AssignSiblingStyle \/ AssignLineStats
SpecDefaults == InitDefaults /\ [][NextDefaults]_vars

\* C12: a StyleData fresh from default() has display Block, zero margin and
\* padding on every edge, font kind Serif, style Normal, weight Normal and
\* color BLACK; a fresh SiblingStyle has padding_bottom 0 and margin_bottom 0;
\* a fresh LineStats has width 0, merged width 0, glue count 0, started false.
C12_Defaults ==
    /\ life.StyleData = "fresh" =>
          /\ style_data.display = "Block"
          /\ \A e \in {"top", "right", "bottom", "left"} :
                style_data.margin[e] = 0 /\ style_data.padding[e] = 0
          /\ style_data.font_kind = "Serif"
          /\ style_data.font_style = "Normal"
          /\ style_data.font_weight = "Normal"
          /\ style_data.color = "BLACK"
    /\ life.SiblingStyle = "fresh" =>
          sibling_style.padding_bottom = 0 /\ sibling_style.margin_bottom = 0
    /\ life.LineStats = "fresh" =>
          /\ line_stats.width = 0 /\ line_stats.merged_width = 0
          /\ line_stats.glues_count = 0 /\ line_stats.started = FALSE

C12_Witness ==
    /\ life = [StyleData |-> "fresh", SiblingStyle |-> "fresh", LineStats |-> "fresh"]
    /\ style_data.font_kind = "Serif"
    /\ sibling_style.margin_bottom = 0
    /\ ~line_stats.started

(***************************************************************************)
(* The menu toggles of src/src/view/common.rs (25-27, 37-122).  A view is  *)
(* the sequence of its children; a child is [id, rect, kind, entries]      *)
(* with id "none" for a child whose id() is None.  hub is the sequence of  *)
(* events sent; the receiving end lives as long as the views do, so        *)
(* hub.send(..).unwrap() succeeds.                                         *)
(***************************************************************************)
ViewId == {"MainMenu", "BatteryMenu", "ClockMenu"}
Enables == {[some |-> FALSE, val |-> FALSE], Some(TRUE), Some(FALSE)}
ViewRects == {[min |-> [x |-> 0, y |-> 0], max |-> [x |-> 1, y |-> 1]],
              [min |-> [x |-> 1, y |-> 0], max |-> [x |-> 2, y |-> 1]]}

\* A child with no id, as the views have before any menu is shown.
OtherChild == [id |-> "none", rect |-> [min |-> [x |-> 0, y |-> 0], max |-> [x |-> 2, y |-> 2]],
               kind |-> "View", entries |-> <<>>]

\* Menu::new (menu.rs, not under src/): a menu with the given id, kind and
\* entries; its rectangle is taken to be the one it is given.
Menu_new(rect, id, kind, entries) == [id |-> id, rect |-> rect, kind |-> kind, entries |-> entries]

\* locate_by_id with map_or(true, ..): a child without id matches.
locate_by_id_none_matches(view, id) ==
    LET hits == {k \in DOMAIN view : view[k].id = "none" \/ view[k].id = id} IN
    IF hits = {} THEN [some |-> FALSE, val |-> 0]
    ELSE Some((CHOOSE k \in hits : \A j \in hits : k <= j) - 1)

\* view.children().iter().position(|c| c.id().map_or(false, |i| i == id))
locate_by_id(view, id) ==
    LET hits == {k \in DOMAIN view : view[k].id # "none" /\ view[k].id = id} IN
    IF hits = {} THEN [some |-> FALSE, val |-> 0]
    ELSE Some((CHOOSE k \in hits : \A j \in hits : k <= j) - 1)

\* Vec::remove(index)
remove(v, index) == SubSeq(v, 1, index) \o SubSeq(v, index + 2, Len(v))

\* The entries of the main menu; standalone tells whether PLATO_STANDALONE is set.
main_menu_entries(standalone) ==
    <<"ToggleInverted", "ToggleMonochrome", "ToggleWifi", "Separator", "TakeScreenshot", "Separator">>
    \o (IF standalone THEN <<"StartNickel", "Reboot">> ELSE <<"Quit">>)

\* The message of the battery menu, by whether status() and capacity() are Ok.
battery_text(status_ok, capacity_ok) ==
    IF status_ok /\ capacity_ok THEN "status capacity%"
    ELSE IF status_ok THEN "status"
    ELSE IF capacity_ok THEN "capacity %"
    ELSE "Unknown"

InitView ==
    /\ children \in {<<>>, <<OtherChild>>}
    /\ hub = <<>>
    /\ last = [menu |-> "none", enable |-> [some |-> FALSE, val |-> FALSE]]
    /\ toggles = 0
    /\ IdleMargins /\ IdleHyph /\ IdleSplit /\ IdleFonts /\ IdleGlue /\ IdleDraw /\ IdleDefaults

toggle_main_menu ==
    /\ toggles < MaxToggles
    /\ \E rect \in ViewRects, enable \in Enables, standalone \in BOOLEAN :
          LET found == locate_by_id(children, "MainMenu") IN
          /\ last' = [menu |-> "MainMenu", enable |-> enable]
          /\ IF found.some
             THEN IF enable = Some(TRUE)
                  THEN UNCHANGED <<children, hub>>
                  ELSE /\ hub' = Append(hub, [kind |-> "Expose", rect |-> children[found.val + 1].rect, mode |-> "Gui"])
                       /\ children' = remove(children, found.val)
             ELSE IF enable = Some(FALSE)
                  THEN UNCHANGED <<children, hub>>
                  ELSE LET menu == Menu_new(rect, "MainMenu", "DropDown", main_menu_entries(standalone)) IN
                       /\ hub' = Append(hub, [kind |-> "Render", rect |-> menu.rect, mode |-> "Gui"])
                       /\ children' = Append(children, menu)
    /\ toggles' = toggles + 1
    /\ UNCHANGED <<marginVars, hyphVars, splitVars, fontVars, glueVars, drawVars, styleVars>>

toggle_battery_menu ==
    /\ toggles < MaxToggles
    /\ \E rect \in ViewRects, enable \in Enables, status_ok \in BOOLEAN, capacity_ok \in BOOLEAN :
          LET found == locate_by_id(children, "BatteryMenu") IN
          /\ last' = [menu |-> "BatteryMenu", enable |-> enable]
          /\ IF found.some
             THEN IF enable = Some(TRUE)
                  THEN UNCHANGED <<children, hub>>
                  ELSE /\ hub' = Append(hub, [kind |-> "Expose", rect |-> children[found.val + 1].rect, mode |-> "Gui"])
                       /\ children' = remove(children, found.val)
             ELSE IF enable = Some(FALSE)
                  THEN UNCHANGED <<children, hub>>
                  ELSE LET menu == Menu_new(rect, "BatteryMenu", "DropDown", <<battery_text(status_ok, capacity_ok)>>) IN
                       /\ hub' = Append(hub, [kind |-> "Render", rect |-> menu.rect, mode |-> "Gui"])
                       /\ children' = Append(children, menu)
    /\ toggles' = toggles + 1
    /\ UNCHANGED <<marginVars, hyphVars, splitVars, fontVars, glueVars, drawVars, styleVars>>

toggle_clock_menu ==
    /\ toggles < MaxToggles
    /\ \E rect \in ViewRects, enable \in Enables :
          LET found == locate_by_id(children, "ClockMenu") IN
          /\ last' = [menu |-> "ClockMenu", enable |-> enable]
          /\ IF found.some
             THEN IF enable = Some(TRUE)
                  THEN UNCHANGED <<children, hub>>
                  ELSE /\ hub' = Append(hub, [kind |-> "Expose", rect |-> children[found.val + 1].rect, mode |-> "Gui"])
                       /\ children' = remove(children, found.val)
             ELSE IF enable = Some(FALSE)
                  THEN UNCHANGED <<children, hub>>
                  ELSE LET menu == Menu_new(rect, "ClockMenu", "DropDown", <<"date">>) IN
                       /\ hub' = Append(hub, [kind |-> "Render", rect |-> menu.rect, mode |-> "Gui"])
                       /\ children' = Append(children, menu)
    /\ toggles' = toggles + 1
    /\ UNCHANGED <<marginVars, hyphVars, splitVars, fontVars, glueVars, drawVars, styleVars>>

NextView == toggle_main_menu \/ toggle_battery_menu \/ toggle_clock_menu
SpecView == InitView /\ [][NextView]_vars

Present(view, id) == \E k \in DOMAIN view : view[k].id = id
CountOf(view, id) == Cardinality({k \in DOMAIN view : view[k].id = id})

\* What one call of a toggle function does, read from the state before and
\* after it: last' names the function called and its enable argument.
ToggleStep ==
    LET id == last'.menu
        en == last'.enable
        before == Present(children, id)
        after == Present(children', id) IN
    /\ after <=> (en = Some(TRUE) \/ (~en.some /\ ~before))
    /\ (before = after) => (hub' = hub /\ children' = children)
    /\ (~before /\ after) =>
          /\ Len(hub') = Len(hub) + 1 /\ SubSeq(hub', 1, Len(hub)) = hub
          /\ hub'[Len(hub')].kind = "Render"
          /\ Len(children') = Len(children) + 1
    /\ (before /\ ~after) =>
          /\ Len(hub') = Len(hub) + 1 /\ SubSeq(hub', 1, Len(hub)) = hub
          /\ hub'[Len(hub')].kind = "Expose"
          /\ Len(children') = Len(children) - 1
    /\ \A other \in (ViewId \cup {"none"}) \ {id} : CountOf(children', other) = CountOf(children, other)

\* C17: after any sequence of toggle calls on a view that starts without the
\* menus, the view holds at most one child of each menu id; after a call the
\* menu is present exactly when enable was Some(true), or None with the menu
\* absent before; a call that does not change presence sends no event and
\* leaves the children as they were, a call that changes it sends exactly
\* one event, Render on adding and Expose on removing.
C17_Toggles ==
    /\ [](\A id \in ViewId : CountOf(children, id) <= 1)
    /\ [][ToggleStep]_vars

C17_Witness ==
    /\ toggles = 3
    /\ Len(hub) = 2 /\ hub[1].kind = "Render" /\ hub[2].kind = "Expose"
    /\ last = [menu |-> "BatteryMenu", enable |-> Some(FALSE)]
    /\ children = <<OtherChild>>

====
